---- MODULE Spec2Model ----
(***************************************************************************)
(* Model of src/semantic_version_comparator.py: the Version value type,    *)
(* its parser (strict SemVer regex plus the lenient "1.2.3b" rewrite), the *)
(* prerelease identifier classifier, the formatter, equality, ordering and *)
(* hashing.                                                                *)
(*                                                                         *)
(* A string is a sequence of characters; a character is a one-token TLA+   *)
(* string.  "LF" is the newline U+000A and "U+0661" is ARABIC-INDIC DIGIT  *)
(* ONE, a decimal digit (category Nd) outside ASCII.                       *)
(*                                                                         *)
(* raised is the message of the ValueError of the last constructor call    *)
(* ("none" when it returned) and quoted the text that message quotes;      *)
(* calls lists the constructor calls made so far, with their arguments.    *)
(***************************************************************************)
EXTENDS Integers, Sequences, FiniteSets, TLC

VARIABLES text, typed, phase, a, b, c, rendered, raised, quoted, hashSeed, calls

vars == <<text, typed, phase, a, b, c, rendered, raised, quoted, hashSeed, calls>>

----------------------------------------------------------------------------
(* Characters                                                              *)

\* The characters of the model in increasing code point order.
CodePointOrder ==
  << "LF", " ", "+", "-", ".",
     "0", "1", "2", "3", "4", "5", "6", "7", "8", "9",
     "A", "B", "C", "D", "E", "F", "G", "H", "I", "J", "K", "L", "M",
     "N", "O", "P", "Q", "R", "S", "T", "U", "V", "W", "X", "Y", "Z",
     "a", "b", "c", "d", "e", "f", "g", "h", "i", "j", "k", "l", "m",
     "n", "o", "p", "q", "r", "s", "t", "u", "v", "w", "x", "y", "z",
     "U+0661" >>

\* ord(ch), up to an order-preserving renumbering.
Ord(ch) == CHOOSE i \in 1..Len(CodePointOrder) : CodePointOrder[i] = ch

AsciiDigitSeq == << "0", "1", "2", "3", "4", "5", "6", "7", "8", "9" >>

AsciiDigit == { AsciiDigitSeq[i] : i \in 1..Len(AsciiDigitSeq) }

AsciiLetter == { CodePointOrder[i] : i \in 16..67 }

\* Decimal digits outside ASCII (Unicode category Nd).
UnicodeDigit == { "U+0661" }

\* \d in a str pattern: any Unicode decimal digit.
ClassDecimal == AsciiDigit \cup UnicodeDigit

\* [1-9]
ClassNonZero == AsciiDigit \ { "0" }

\* [0-9A-Za-z\-\.]
ClassIdentifier == AsciiDigit \cup AsciiLetter \cup { "-", "." }

\* [a-zA-Z]
ClassLetter == AsciiLetter

\* [a-zA-Z0-9]
ClassLetterDigit == AsciiLetter \cup AsciiDigit

\* The value int() gives a single decimal digit.
DigitValue(ch) ==
  IF ch = "U+0661" THEN 1
  ELSE (CHOOSE i \in 1..Len(AsciiDigitSeq) : AsciiDigitSeq[i] = ch) - 1

----------------------------------------------------------------------------
(* Strings                                                                 *)

Take(s, n) == SubSeq(s, 1, n)

Drop(s, n) == SubSeq(s, n + 1, Len(s))

\* Length of the longest prefix of s made of characters of class.
RECURSIVE RunLen(_, _)
RunLen(s, class) ==
  IF s = <<>> \/ Head(s) \notin class THEN 0
  ELSE 1 + RunLen(Tail(s), class)

\* The position of the first sep in s, which holds one.
find(s, sep) == CHOOSE i \in 1..Len(s) : s[i] = sep /\ \A j \in 1..(i - 1) : s[j] # sep

\* str.split(sep): the pieces of s between the occurrences of sep.
RECURSIVE split(_, _)
split(s, sep) ==
  IF \A i \in 1..Len(s) : s[i] # sep THEN << s >>
  ELSE << Take(s, find(s, sep) - 1) >> \o split(Drop(s, find(s, sep)), sep)

\* sep.join(parts)
RECURSIVE join(_, _)
join(parts, sep) ==
  IF parts = <<>> THEN <<>>
  ELSE IF Len(parts) = 1 THEN parts[1]
  ELSE parts[1] \o << sep >> \o join(Tail(parts), sep)

\* str.isdigit(): non-empty and every character is a digit.
isdigit(s) == s # <<>> /\ \A i \in 1..Len(s) : s[i] \in ClassDecimal

\* str.isalpha() of one character, for ASCII.
isalnum_letters_only(ch) == ch \in AsciiLetter

\* str.isalnum() of one character.
isalnum(ch) == ch \in AsciiLetter \cup ClassDecimal

\* int(s) of a string of decimal digits.
RECURSIVE int(_)
int(s) ==
  IF s = <<>> THEN 0
  ELSE 10 * int(Take(s, Len(s) - 1)) + DigitValue(s[Len(s)])

\* str(n) of an integer: decimal digits, a minus sign when negative.
RECURSIVE str_int(_)
str_int(n) ==
  IF n < 0 THEN << "-" >> \o str_int(0 - n)
  ELSE IF n < 10 THEN << AsciiDigitSeq[n + 1] >>
  ELSE str_int(n \div 10) \o << AsciiDigitSeq[(n % 10) + 1] >>

\* s < t with the shorter str first and code points among equal lengths.
RECURSIVE str_lt_shorter_first(_, _)
str_lt_shorter_first(s, t) ==
  IF Len(s) # Len(t) THEN Len(s) < Len(t)
  ELSE IF s = <<>> THEN FALSE
  ELSE IF Head(s) # Head(t) THEN Ord(Head(s)) < Ord(Head(t))
  ELSE str_lt_shorter_first(Tail(s), Tail(t))

\* s < t for two str: lexicographic by code point.
RECURSIVE str_lt(_, _)
str_lt(s, t) ==
  IF t = <<>> THEN FALSE
  ELSE IF s = <<>> THEN TRUE
  ELSE IF Head(s) # Head(t) THEN Ord(Head(s)) < Ord(Head(t))
  ELSE str_lt(Tail(s), Tail(t))

----------------------------------------------------------------------------
(* Regular expressions                                                     *)

\* `$` without re.MULTILINE: at the end of the string, or just before a
\* newline that is the last character.
AtDollar(rest) == rest = <<>> \/ rest = << "LF" >>

\* \d+ in place of (0|[1-9]\d*).
NumberLen_any_digits(s) == RunLen(s, ClassDecimal)

\* (0|[1-9]\d*) at the start of s: the number of characters it takes, 0 when
\* it does not match.  What follows a component in either pattern is never a
\* digit, so the longest match is the only one that can succeed.
NumberLen(s) ==
  IF s = <<>> THEN 0
  ELSE IF Head(s) = "0" THEN 1
  ELSE IF Head(s) \in ClassNonZero THEN 1 + RunLen(Tail(s), ClassDecimal)
  ELSE 0

\* A separator and what follows it take n + 1 characters when what follows
\* takes n > 0, and no match otherwise.
Separated(n) == IF n > 0 THEN n + 1 ELSE 0

\* \.(0|[1-9]\d*) at the start of s: the characters it takes, 0 for no match.
DotNumberLen(s) ==
  IF s # <<>> /\ Head(s) = "." THEN Separated(NumberLen(Tail(s))) ELSE 0

\* (?:-([0-9A-Za-z\-\.]+))? or (?:\+([0-9A-Za-z\-\.]+))? at the start of s: the
\* characters the group takes, 0 when it takes no part in the match.  The
\* class holds neither "+" nor the newline, so the longest run is the only
\* one after which the rest of the pattern can match.
OptionalGroupLen(s, sign) ==
  IF s # <<>> /\ Head(s) = sign THEN Separated(RunLen(Tail(s), ClassIdentifier)) ELSE 0

NoMatch ==
  [ matched |-> FALSE, major |-> <<>>, minor |-> <<>>, patch |-> <<>>,
    prerelease |-> <<>>, buildmetadata |-> <<>> ]

\* The match object, given how many characters major (n1), "." minor (n2),
\* "." patch (n3), "-" prerelease (n4) and "+" buildmetadata (n5) take.  A
\* group that took no part in the match is None in the code and <<>> here:
\* the code reads both optional groups through `not` and `or`.
semver_groups(version, n1, n2, n3, n4, n5) ==
  IF n1 = 0 \/ n2 = 0 \/ n3 = 0 \/ ~AtDollar(Drop(version, n1 + n2 + n3 + n4 + n5))
  THEN NoMatch
  ELSE [ matched |-> TRUE,
         major |-> Take(version, n1),
         minor |-> SubSeq(version, n1 + 2, n1 + n2),
         patch |-> SubSeq(version, n1 + n2 + 2, n1 + n2 + n3),
         prerelease |-> SubSeq(version, n1 + n2 + n3 + 2, n1 + n2 + n3 + n4),
         buildmetadata |-> SubSeq(version, n1 + n2 + n3 + n4 + 2,
                                  n1 + n2 + n3 + n4 + n5) ]

semver_from_build(version, n1, n2, n3, n4) ==
  semver_groups(version, n1, n2, n3, n4,
                OptionalGroupLen(Drop(version, n1 + n2 + n3 + n4), "+"))

semver_from_prerelease(version, n1, n2, n3) ==
  semver_from_build(version, n1, n2, n3,
                    OptionalGroupLen(Drop(version, n1 + n2 + n3), "-"))

semver_from_patch(version, n1, n2) ==
  semver_from_prerelease(version, n1, n2, DotNumberLen(Drop(version, n1 + n2)))

semver_from_minor(version, n1) ==
  semver_from_patch(version, n1, DotNumberLen(Drop(version, n1)))

\* _semver_regex.match(version)
semver_regex(version) == semver_from_minor(version, NumberLen(version))

\* \.\d+ at the start of s: the characters it takes, 0 for no match.
DotDigitsLen(s) ==
  IF s # <<>> /\ Head(s) = "." THEN Separated(RunLen(Tail(s), ClassDecimal)) ELSE 0

\* [a-zA-Z]+ in place of [a-zA-Z][a-zA-Z0-9]*.
LetterRunLen_letters_only(s) == RunLen(s, ClassLetter)

\* [a-zA-Z][a-zA-Z0-9.]* in place of [a-zA-Z][a-zA-Z0-9]*.
LetterRunLen_with_dots(s) ==
  IF s # <<>> /\ Head(s) \in ClassLetter
  THEN 1 + RunLen(Tail(s), ClassLetterDigit \cup { "." })
  ELSE 0

\* [a-zA-Z][a-zA-Z0-9]* at the start of s: the characters it takes.
LetterRunLen(s) ==
  IF s # <<>> /\ Head(s) \in ClassLetter THEN 1 + RunLen(Tail(s), ClassLetterDigit) ELSE 0

\* Where group 2 of the rewrite pattern starts, given how many characters
\* \d+ (d1), \.\d+ (d2), \.\d+ (d3) and the letter run (run) take; 0 when the
\* pattern does not match.
lenient_groups(version, d1, d2, d3, run) ==
  IF d1 = 0 \/ d2 = 0 \/ d3 = 0 \/ run = 0 \/ ~AtDollar(Drop(version, d1 + d2 + d3 + run))
  THEN 0
  ELSE d1 + d2 + d3

lenient_from_run(version, d1, d2, d3) ==
  lenient_groups(version, d1, d2, d3, LetterRunLen(Drop(version, d1 + d2 + d3)))

lenient_from_patch(version, d1, d2) ==
  lenient_from_run(version, d1, d2, DotDigitsLen(Drop(version, d1 + d2)))

lenient_from_minor(version, d1) ==
  lenient_from_patch(version, d1, DotDigitsLen(Drop(version, d1)))

\* ^(\d+\.\d+\.\d+)([a-zA-Z][a-zA-Z0-9]*)$ on version: the length of group 1,
\* 0 when the pattern does not match.
lenient_regex(version) == lenient_from_minor(version, RunLen(version, ClassDecimal))

\* The replacement r"\1-\2" for a match whose group 1 has length group1.
hyphenate(version, group1) ==
  IF group1 = 0 THEN version
  ELSE Take(version, group1) \o << "-" >> \o Drop(version, group1)

\* re.sub(r"^(\d+\.\d+\.\d+)([a-zA-Z][a-zA-Z0-9]*)$", r"\1-\2", version)
alternative_version(version) == hyphenate(version, lenient_regex(version))

----------------------------------------------------------------------------
(* Version                                                                 *)

\* A prerelease identifier is an int or a str (tuple[int | str, ...]); the
\* record carries the type and the value of that type.
IntId(n) == [ kind |-> "int", num |-> n, str |-> <<>> ]

StrId(s) == [ kind |-> "str", num |-> 0, str |-> s ]

\* The element of a set of one.
The(register) == CHOOSE version \in register : TRUE

\* What a constructor gives its caller: the exception it raised, if any, with
\* the text its message quotes between '', and the instance, if it returned
\* one (a set of at most one Version).
Raise(message, text_quoted) ==
  [ raised |-> message, quoted |-> text_quoted, value |-> {} ]

Return(version) == [ raised |-> "none", quoted |-> <<>>, value |-> { version } ]

\* The classifier with digits that start with a zero kept as a str.
classify_identifier_zero_led_as_str(identifier) ==
  IF identifier = <<>> THEN Raise("Prerelease identifiers must be non-empty", <<>>)
  ELSE IF isdigit(identifier) /\ ~(Head(identifier) = "0" /\ Len(identifier) > 1)
  THEN Return(IntId(int(identifier)))
  ELSE IF ~ \A i \in 1..Len(identifier) : isalnum(identifier[i]) \/ identifier[i] = "-"
       THEN Raise("Invalid prerelease identifier", identifier)
       ELSE Return(StrId(identifier))

\* The round without the test of leading zeros.
classify_identifier_no_zero_test(identifier) ==
  IF identifier = <<>> THEN Raise("Prerelease identifiers must be non-empty", <<>>)
  ELSE IF isdigit(identifier) THEN Return(IntId(int(identifier)))
  ELSE IF ~ \A i \in 1..Len(identifier) : isalnum(identifier[i]) \/ identifier[i] = "-"
       THEN Raise("Invalid prerelease identifier", identifier)
       ELSE Return(StrId(identifier))

\* The round without the test of an empty segment.
classify_identifier_allowing_empty(identifier) ==
  IF isdigit(identifier)
  THEN IF Head(identifier) = "0" /\ Len(identifier) > 1
       THEN Raise("Numeric prerelease identifier must not have leading zeros", identifier)
       ELSE Return(IntId(int(identifier)))
  ELSE IF ~ \A i \in 1..Len(identifier) : isalnum(identifier[i]) \/ identifier[i] = "-"
       THEN Raise("Invalid prerelease identifier", identifier)
       ELSE Return(StrId(identifier))

\* The round that appends a segment of digits as the str it is.
classify_identifier_keeping_digits_as_str(identifier) ==
  IF identifier = <<>> THEN Raise("Prerelease identifiers must be non-empty", <<>>)
  ELSE IF isdigit(identifier) /\ Head(identifier) = "0" /\ Len(identifier) > 1
  THEN Raise("Numeric prerelease identifier must not have leading zeros", identifier)
  ELSE IF ~ \A i \in 1..Len(identifier) : isalnum(identifier[i]) \/ identifier[i] = "-"
       THEN Raise("Invalid prerelease identifier", identifier)
       ELSE Return(StrId(identifier))

\* One round of the loop of _parse_prerelease: the identifier a segment
\* becomes, or the ValueError it raises.
classify_identifier(identifier) ==
  IF identifier = <<>> THEN Raise("Prerelease identifiers must be non-empty", <<>>)
  ELSE IF isdigit(identifier)
  THEN IF Head(identifier) = "0" /\ Len(identifier) > 1
       THEN Raise("Numeric prerelease identifier must not have leading zeros", identifier)
       ELSE Return(IntId(int(identifier)))
  ELSE IF ~ \A i \in 1..Len(identifier) : isalnum(identifier[i]) \/ identifier[i] = "-"
       THEN Raise("Invalid prerelease identifier", identifier)
       ELSE Return(StrId(identifier))

\* What the loop gives after a segment: the first failure is raised,
\* otherwise the identifiers in order.
collect(one, rest) ==
  IF one.raised # "none"
  THEN [ raised |-> one.raised, quoted |-> one.quoted, value |-> <<>> ]
  ELSE IF rest.raised # "none" THEN rest
  ELSE [ raised |-> "none", quoted |-> <<>>,
         value |-> << The(one.value) >> \o rest.value ]

\* The loop of _parse_prerelease over the segments.
RECURSIVE parse_identifiers(_)
parse_identifiers(prerelease_parts) ==
  IF prerelease_parts = <<>> THEN [ raised |-> "none", quoted |-> <<>>, value |-> <<>> ]
  ELSE collect(classify_identifier(Head(prerelease_parts)),
               parse_identifiers(Tail(prerelease_parts)))

\* Version._parse_prerelease
parse_prerelease(prerelease_string) ==
  IF prerelease_string = <<>> THEN [ raised |-> "none", quoted |-> <<>>, value |-> <<>> ]
  ELSE parse_identifiers(split(prerelease_string, "."))

\* The match the constructor goes on with: the one of the string as given,
\* else the one of the rewritten string.
match_result(first, second) == IF first.matched THEN first ELSE second

\* The assignments of __init__ after the match, given the classified
\* prerelease.
init_fields(match, prerelease) ==
  IF prerelease.raised # "none" THEN Raise(prerelease.raised, prerelease.quoted)
  ELSE Return([ major |-> int(match.major),
                minor |-> int(match.minor),
                patch |-> int(match.patch),
                prerelease |-> prerelease.value,
                buildmetadata |-> match.buildmetadata ])

\* __init__ after the two matches: the ValueError quotes version.
init_match(match, version) ==
  IF ~match.matched THEN Raise("Invalid version", version)
  ELSE init_fields(match, parse_prerelease(match.prerelease))

\* __init__ with the rewritten string quoted in the ValueError.
Version_init_quoting_alternative(version) ==
  init_match(match_result(semver_regex(version),
                          semver_regex(alternative_version(version))),
             alternative_version(version))

\* Version.__init__: Version(version)
Version_init(version) ==
  init_match(match_result(semver_regex(version),
                          semver_regex(alternative_version(version))),
             version)

\* from_parts with zero refused as well.
from_parts_rejecting_zero(major, minor, patch, prerelease, buildmetadata) ==
  IF major <= 0 \/ minor <= 0 \/ patch <= 0
  THEN Raise("Version components must be non-negative", <<>>)
  ELSE Return([ major |-> major,
                minor |-> minor,
                patch |-> patch,
                prerelease |-> IF prerelease # {} THEN CHOOSE p \in prerelease : TRUE
                               ELSE <<>>,
                buildmetadata |-> buildmetadata ])

\* Version.from_parts.  The optional prerelease argument is a set: {} is None,
\* {p} is the tuple p.
from_parts(major, minor, patch, prerelease, buildmetadata) ==
  IF major < 0 \/ minor < 0 \/ patch < 0
  THEN Raise("Version components must be non-negative", <<>>)
  ELSE Return([ major |-> major,
                minor |-> minor,
                patch |-> patch,
                prerelease |-> IF prerelease # {} THEN CHOOSE p \in prerelease : TRUE
                               ELSE <<>>,
                buildmetadata |-> buildmetadata ])

\* str(identifier)
str_identifier(identifier) ==
  IF identifier.kind = "int" THEN str_int(identifier.num) ELSE identifier.str

\* __str__ with the identifiers joined by "-".
Version_str_hyphen_joined(self) ==
  LET base_version == str_int(self.major) \o << "." >> \o str_int(self.minor)
                        \o << "." >> \o str_int(self.patch)
      prerelease_string ==
        join([ i \in 1..Len(self.prerelease) |-> str_identifier(self.prerelease[i]) ], "-")
      with_prerelease == IF self.prerelease # <<>>
                         THEN base_version \o << "-" >> \o prerelease_string
                         ELSE base_version
  IN  IF self.buildmetadata # <<>>
      THEN with_prerelease \o << "+" >> \o self.buildmetadata
      ELSE with_prerelease

\* "".join(parts)
RECURSIVE run_together(_)
run_together(parts) ==
  IF parts = <<>> THEN <<>> ELSE parts[1] \o run_together(Tail(parts))

\* __str__ with the identifiers joined by "".
Version_str_identifiers_run_together(self) ==
  LET base_version == str_int(self.major) \o << "." >> \o str_int(self.minor)
                        \o << "." >> \o str_int(self.patch)
      prerelease_string ==
        run_together([ i \in 1..Len(self.prerelease) |-> str_identifier(self.prerelease[i]) ])
      with_prerelease == IF self.prerelease # <<>>
                         THEN base_version \o << "-" >> \o prerelease_string
                         ELSE base_version
  IN  IF self.buildmetadata # <<>>
      THEN with_prerelease \o << "+" >> \o self.buildmetadata
      ELSE with_prerelease

\* __str__ with "+" appended whether or not there is buildmetadata.
Version_str_plus_always(self) ==
  LET base_version == str_int(self.major) \o << "." >> \o str_int(self.minor)
                        \o << "." >> \o str_int(self.patch)
      prerelease_string ==
        join([ i \in 1..Len(self.prerelease) |-> str_identifier(self.prerelease[i]) ], ".")
      with_prerelease == IF self.prerelease # <<>>
                         THEN base_version \o << "-" >> \o prerelease_string
                         ELSE base_version
  IN  with_prerelease \o << "+" >> \o self.buildmetadata

\* Version.__str__
Version_str(self) ==
  LET base_version == str_int(self.major) \o << "." >> \o str_int(self.minor)
                        \o << "." >> \o str_int(self.patch)
      prerelease_string ==
        join([ i \in 1..Len(self.prerelease) |-> str_identifier(self.prerelease[i]) ], ".")
      with_prerelease == IF self.prerelease # <<>>
                         THEN base_version \o << "-" >> \o prerelease_string
                         ELSE base_version
  IN  IF self.buildmetadata # <<>>
      THEN with_prerelease \o << "+" >> \o self.buildmetadata
      ELSE with_prerelease

\* The __eq__ a dataclass generates: every field is compared.
Version_eq_all_fields(self, other) == self = other

\* __eq__ without the comparison of the prereleases.
Version_eq_core_only(self, other) ==
  /\ self.major = other.major
  /\ self.minor = other.minor
  /\ self.patch = other.patch

\* Version.__eq__
Version_eq(self, other) ==
  /\ self.major = other.major
  /\ self.minor = other.minor
  /\ self.patch = other.patch
  /\ self.prerelease = other.prerelease

\* self_identifier < other_identifier for two identifiers of one type.
identifier_lt(self_identifier, other_identifier) ==
  IF self_identifier.kind = "int" THEN self_identifier.num < other_identifier.num
  ELSE str_lt(self_identifier.str, other_identifier.str)

\* The loop ending in len(self.prerelease) <= len(other.prerelease).
RECURSIVE prerelease_lt_or_same_length(_, _)
prerelease_lt_or_same_length(self_prerelease, other_prerelease) ==
  IF self_prerelease = <<>> \/ other_prerelease = <<>>
  THEN Len(self_prerelease) <= Len(other_prerelease)
  ELSE IF Head(self_prerelease).kind = "int" /\ Head(other_prerelease).kind = "str" THEN TRUE
  ELSE IF Head(self_prerelease).kind = "str" /\ Head(other_prerelease).kind = "int" THEN FALSE
  ELSE IF Head(self_prerelease) # Head(other_prerelease)
       THEN identifier_lt(Head(self_prerelease), Head(other_prerelease))
  ELSE prerelease_lt_or_same_length(Tail(self_prerelease), Tail(other_prerelease))

\* The loop with identifiers of different types compared as text.
RECURSIVE prerelease_lt_as_text(_, _)
prerelease_lt_as_text(self_prerelease, other_prerelease) ==
  IF self_prerelease = <<>> \/ other_prerelease = <<>>
  THEN Len(self_prerelease) < Len(other_prerelease)
  ELSE IF Head(self_prerelease).kind # Head(other_prerelease).kind
       THEN str_lt(str_identifier(Head(self_prerelease)),
                   str_identifier(Head(other_prerelease)))
  ELSE IF Head(self_prerelease) # Head(other_prerelease)
       THEN identifier_lt(Head(self_prerelease), Head(other_prerelease))
  ELSE prerelease_lt_as_text(Tail(self_prerelease), Tail(other_prerelease))

\* The loop with the two returns of the type test exchanged.
RECURSIVE prerelease_lt_types_swapped(_, _)
prerelease_lt_types_swapped(self_prerelease, other_prerelease) ==
  IF self_prerelease = <<>> \/ other_prerelease = <<>>
  THEN Len(self_prerelease) < Len(other_prerelease)
  ELSE IF Head(self_prerelease).kind = "int" /\ Head(other_prerelease).kind = "str" THEN FALSE
  ELSE IF Head(self_prerelease).kind = "str" /\ Head(other_prerelease).kind = "int" THEN TRUE
  ELSE IF Head(self_prerelease) # Head(other_prerelease)
       THEN identifier_lt(Head(self_prerelease), Head(other_prerelease))
  ELSE prerelease_lt_types_swapped(Tail(self_prerelease), Tail(other_prerelease))

\* The loop ending in len(self.prerelease) > len(other.prerelease).
RECURSIVE prerelease_lt_longer_first(_, _)
prerelease_lt_longer_first(self_prerelease, other_prerelease) ==
  IF self_prerelease = <<>> \/ other_prerelease = <<>>
  THEN Len(self_prerelease) > Len(other_prerelease)
  ELSE IF Head(self_prerelease).kind = "int" /\ Head(other_prerelease).kind = "str" THEN TRUE
  ELSE IF Head(self_prerelease).kind = "str" /\ Head(other_prerelease).kind = "int" THEN FALSE
  ELSE IF Head(self_prerelease) # Head(other_prerelease)
       THEN identifier_lt(Head(self_prerelease), Head(other_prerelease))
  ELSE prerelease_lt_longer_first(Tail(self_prerelease), Tail(other_prerelease))

\* The loop of __lt__ over zip(self.prerelease, other.prerelease) and the
\* length comparison after it.
RECURSIVE prerelease_lt(_, _)
prerelease_lt(self_prerelease, other_prerelease) ==
  IF self_prerelease = <<>> \/ other_prerelease = <<>>
  THEN Len(self_prerelease) < Len(other_prerelease)
  ELSE LET self_identifier == Head(self_prerelease)
           other_identifier == Head(other_prerelease)
       IN  IF self_identifier.kind = "int" /\ other_identifier.kind = "str" THEN TRUE
           ELSE IF self_identifier.kind = "str" /\ other_identifier.kind = "int" THEN FALSE
           ELSE IF self_identifier # other_identifier
                THEN identifier_lt(self_identifier, other_identifier)
           ELSE prerelease_lt(Tail(self_prerelease), Tail(other_prerelease))

\* __lt__ without the two tests of an empty prerelease.
Version_lt_no_release_rule(self, other) ==
  IF self.major # other.major THEN self.major < other.major
  ELSE IF self.minor # other.minor THEN self.minor < other.minor
  ELSE IF self.patch # other.patch THEN self.patch < other.patch
  ELSE prerelease_lt(self.prerelease, other.prerelease)

\* __lt__ with major, minor and patch compared as their decimal texts.
Version_lt_core_as_text(self, other) ==
  IF self.major # other.major
  THEN str_lt(str_int(self.major), str_int(other.major))
  ELSE IF self.minor # other.minor
  THEN str_lt(str_int(self.minor), str_int(other.minor))
  ELSE IF self.patch # other.patch
  THEN str_lt(str_int(self.patch), str_int(other.patch))
  ELSE IF self.prerelease = <<>> /\ other.prerelease # <<>> THEN FALSE
  ELSE IF self.prerelease # <<>> /\ other.prerelease = <<>> THEN TRUE
  ELSE prerelease_lt(self.prerelease, other.prerelease)

\* Version.__lt__
Version_lt(self, other) ==
  IF self.major # other.major THEN self.major < other.major
  ELSE IF self.minor # other.minor THEN self.minor < other.minor
  ELSE IF self.patch # other.patch THEN self.patch < other.patch
  ELSE IF self.prerelease = <<>> /\ other.prerelease # <<>> THEN FALSE
  ELSE IF self.prerelease # <<>> /\ other.prerelease = <<>> THEN TRUE
  ELSE prerelease_lt(self.prerelease, other.prerelease)

\* The operators @functools.total_ordering and object derive from __lt__ and
\* __eq__.
Version_ne(self, other) == ~Version_eq(self, other)

\* __gt__ derived as "not <" alone.
Version_gt_as_not_lt(self, other) == ~Version_lt(self, other)

Version_gt(self, other) == ~Version_lt(self, other) /\ Version_ne(self, other)

Version_le(self, other) == Version_lt(self, other) \/ Version_eq(self, other)

Version_ge(self, other) == ~Version_lt(self, other)

\* The builtin hash, reduced to a small range.  hash(int) is the value, but
\* hash(-1) is -2; hash(str) depends on the per-process seed; hash(tuple)
\* mixes the hashes of the elements in order.
hash_range(n) == n % 65521

hash_int(n) == IF n = 0 - 1 THEN 0 - 2 ELSE n

RECURSIVE hash_str(_, _)
hash_str(s, seed) ==
  IF s = <<>> THEN hash_range(seed)
  ELSE hash_range(131 * hash_str(Take(s, Len(s) - 1), seed) + Ord(s[Len(s)]))

RECURSIVE hash_tuple(_)
hash_tuple(hashes) ==
  IF hashes = <<>> THEN 2
  ELSE hash_range(31 * hash_tuple(Take(hashes, Len(hashes) - 1)) + hashes[Len(hashes)])

hash_identifier(identifier, seed) ==
  IF identifier.kind = "int" THEN hash_int(identifier.num)
  ELSE hash_str(identifier.str, seed)

\* The __hash__ a frozen dataclass generates: every field is hashed.
Version_hash_all_fields(self, seed) ==
  hash_tuple(<< hash_int(self.major), hash_int(self.minor), hash_int(self.patch),
                hash_tuple([ i \in 1..Len(self.prerelease) |->
                               hash_identifier(self.prerelease[i], seed) ]),
                hash_str(self.buildmetadata, seed) >>)

\* Version.__hash__
Version_hash(self, seed) ==
  hash_tuple(<< hash_int(self.major), hash_int(self.minor), hash_int(self.patch),
                hash_tuple([ i \in 1..Len(self.prerelease) |->
                               hash_identifier(self.prerelease[i], seed) ]) >>)

----------------------------------------------------------------------------
(* Parsing one string: the input is typed, parsed, formatted and parsed    *)
(* again.                                                                  *)

\* Longest text typed after a start of Heads.
MaxTail == 3

\* The strings the input starts from.
Heads ==
  { << "1", ".", "0", ".", "0" >>,
    << "0", ".", "0", ".", "0" >>,
    << "0", "1", ".", "0", ".", "0" >>,
    << "1", ".", "0", "2", ".", "3" >>,
    << "1", ".", "2", ".", "0", "3" >>,
    << "1", "0", ".", "2", ".", "1" >>,
    << "1", "U+0661", ".", "0", ".", "0" >>,
    << "1", ".", "0", ".", "0", "-", "a" >>,
    << "1", ".", "0", ".", "0", "-", "0" >>,
    << "1", ".", "0", ".", "0", "+", "a" >>,
    <<>>,
    << "1", ".", "2" >>,
    << "v", "1", ".", "2", ".", "3" >>,
    << "1", ".", "2", ".", "3", ".", "4" >>,
    << " ", "1", ".", "0", ".", "0" >>,
    << "0", ".", "3", ".", "0", "b" >>,
    << "1", ".", "2", ".", "3", "-", "a", "l", "p", "h", "a", ".", "1" >> }

\* The characters typed after it.
TailAlphabet == { "0", "1", "a", "-", ".", "+", "LF" }

InitParse ==
  /\ text \in Heads
  /\ typed = 0
  /\ phase = "input"
  /\ a = {} /\ b = {} /\ c = {}
  /\ rendered = <<>>
  /\ raised = "none"
  /\ quoted = <<>>
  /\ calls = <<>>
  /\ hashSeed = 0

\* One more character of the input string.
Type(ch) ==
  /\ phase = "input"
  /\ typed < MaxTail
  /\ text' = Append(text, ch)
  /\ typed' = typed + 1
  /\ UNCHANGED << phase, a, b, c, rendered, raised, quoted, hashSeed, calls >>

\* a = Version(text)
Parse ==
  /\ phase = "input"
  /\ LET result == Version_init(text)
     IN  a' = result.value /\ raised' = result.raised /\ quoted' = result.quoted
  /\ phase' = "parsed"
  /\ UNCHANGED << text, typed, b, c, rendered, hashSeed, calls >>

\* rendered = str(a)
Format ==
  /\ phase = "parsed"
  /\ a # {}
  /\ rendered' = Version_str(The(a))
  /\ phase' = "formatted"
  /\ UNCHANGED << text, typed, a, b, c, raised, quoted, hashSeed, calls >>

\* b = Version(rendered)
Reparse ==
  /\ phase = "formatted"
  /\ LET result == Version_init(rendered)
     IN  b' = result.value /\ raised' = result.raised /\ quoted' = result.quoted
  /\ phase' = "reparsed"
  /\ UNCHANGED << text, typed, a, c, rendered, hashSeed, calls >>

NextParse ==
  \/ \E ch \in TailAlphabet : Type(ch)
  \/ Parse
  \/ Format
  \/ Reparse

SpecParse == InitParse /\ [][NextParse]_vars

----------------------------------------------------------------------------
(* Comparing Versions: instances are constructed once, into a, then b,     *)
(* then c, and never change afterwards (the dataclass is frozen).          *)

\* Most identifiers in a generated prerelease.
MaxIds == 2

\* The version strings of main().
MainInputs ==
  { << "1", ".", "0", ".", "0" >>,
    << "2", ".", "0", ".", "0" >>,
    << "1", ".", "4", "2", ".", "0" >>,
    << "1", ".", "2", ".", "0" >>,
    << "1", ".", "2", ".", "4", "2" >>,
    << "1", ".", "1", ".", "0", "-", "a", "l", "p", "h", "a" >>,
    << "1", ".", "2", ".", "0", "-", "a", "l", "p", "h", "a", ".", "1" >>,
    << "1", ".", "0", ".", "1", "b" >>,
    << "1", ".", "0", ".", "1", "0", "-", "a", "l", "p", "h", "a", ".", "b", "e", "t", "a" >>,
    << "1", ".", "0", ".", "0", "-", "r", "c", ".", "1" >>,
    << "1", ".", "1", ".", "3" >>,
    << "2", ".", "2", ".", "3" >>,
    << "1", ".", "3", ".", "0" >>,
    << "0", ".", "3", ".", "0" >>,
    << "0", ".", "3", ".", "0", "b" >>,
    << "1", ".", "3", ".", "4", "2" >>,
    << "4", "2", ".", "3", ".", "1" >>,
    << "1", ".", "2", ".", "3", "-", "a", "l", "p", "h", "a", ".", "1" >> }

CoreTexts == { << "1", ".", "0", ".", "0" >>, << "1", ".", "0", ".", "1" >> }

IdTexts == { << "2" >>, << "1", "0" >>, << "1", "a" >> }

BuildTexts == { <<>>, << "+", "b" >> }

\* "-" and the identifiers joined by ".", nothing for no identifier.
PrereleaseText(ids) == IF ids = <<>> THEN <<>> ELSE << "-" >> \o join(ids, ".")

\* Every core of cores followed by a prerelease of at most MaxIds identifiers
\* and by a build of builds.
GeneratedInputs(cores, builds) ==
  { core \o PrereleaseText(ids) \o build :
      core \in cores,
      ids \in UNION { [ 1..n -> IdTexts ] : n \in 0..MaxIds },
      build \in builds }

\* Prereleases of one identifier that differ in a digit, in case, in a
\* hyphen, a prerelease with its extension by one identifier, and a patch
\* that is below main()'s 10 as a number and above it as text.
OrderInputs ==
  { << "1", ".", "0", ".", "2" >>,
    << "1", ".", "0", ".", "0", "-", "a", "1", "0" >>,
    << "1", ".", "0", ".", "0", "-", "a", "2" >>,
    << "1", ".", "0", ".", "0", "-", "Z" >>,
    << "1", ".", "0", ".", "0", "-", "a" >>,
    << "1", ".", "0", ".", "0", "-", "A" >>,
    << "1", ".", "0", ".", "0", "-", "-" >>,
    << "1", ".", "0", ".", "0", "-", "a", "l", "p", "h", "a" >>,
    << "1", ".", "0", ".", "0", "-", "a", "l", "p", "h", "a", ".", "1" >> }

PairInputs ==
  MainInputs \cup OrderInputs
    \cup GeneratedInputs({ << "1", ".", "0", ".", "0" >> }, BuildTexts)

TripleInputs == GeneratedInputs(CoreTexts, { <<>> })

\* The arguments given to from_parts: those of main(), and a negative, a
\* zero and a positive number for each component.  The prerelease is None,
\* a tuple of ints and strs as the parser makes them, or the tuple of the
\* empty str, which the parser never makes.
PartsNumbers == { 0 - 1, 0, 1 }

PartsPrereleases ==
  { {}, { <<>> }, { << IntId(2) >> }, { << StrId(<< "a" >>) >> },
    { << StrId(<< "a", "l", "p", "h", "a" >>), IntId(1) >> },
    { << StrId(<<>>) >> } }

PartsBuilds == { <<>>, << "b" >> }

\* The seeds of str hashing a process may run with.
HashSeeds == { 0, 1 }

InitCompare ==
  /\ text = <<>>
  /\ typed = 0
  /\ phase = "compare"
  /\ a = {} /\ b = {} /\ c = {}
  /\ rendered = <<>>
  /\ raised = "none"
  /\ quoted = <<>>
  /\ calls = <<>>
  /\ hashSeed \in HashSeeds

\* x = <constructor call>: the call is noted with its arguments, the instance
\* goes to the first free name, and no name is bound when the call raises.
\* Nothing catches the ValueError, so nothing runs after it.
Store(call, result) ==
  /\ raised = "none"
  /\ calls' = Append(calls, call)
  /\ raised' = result.raised
  /\ quoted' = result.quoted
  /\ IF a = {} THEN a' = result.value /\ UNCHANGED << b, c >>
     ELSE IF b = {} THEN b' = result.value /\ UNCHANGED << a, c >>
     ELSE c' = result.value /\ UNCHANGED << a, b >>
  /\ UNCHANGED << text, typed, phase, rendered, hashSeed >>

\* Version(version)
New(version) ==
  /\ phase = "compare"
  /\ b = {}
  /\ Store(<< "Version", version >>, Version_init(version))

\* Version.from_parts(major, minor, patch, prerelease, buildmetadata)
FromParts(major, minor, patch, prerelease, buildmetadata) ==
  /\ phase = "compare"
  /\ b = {}
  /\ Store(<< "from_parts", major, minor, patch, prerelease, buildmetadata >>,
           from_parts(major, minor, patch, prerelease, buildmetadata))

\* A constructor is called while the second name is free and no call has
\* raised.
CanCall == b = {} /\ raised = "none"

Next ==
  \/ CanCall /\ \E version \in PairInputs : New(version)
  \/ CanCall /\ \E major \in PartsNumbers, minor \in PartsNumbers, patch \in PartsNumbers,
                    prerelease \in PartsPrereleases, buildmetadata \in PartsBuilds :
                  FromParts(major, minor, patch, prerelease, buildmetadata)
  \/ FromParts(1, 2, 3, { << StrId(<< "a", "l", "p", "h", "a" >>), IntId(1) >> }, <<>>)

Spec == InitCompare /\ [][Next]_vars

\* Three instances, all from Version(version).
InitTriple == InitCompare /\ hashSeed = 0

NewOfThree(version) ==
  /\ phase = "compare"
  /\ c = {}
  /\ Store(<< "Version", version >>, Version_init(version))

NextTriple == c = {} /\ \E version \in TripleInputs : NewOfThree(version)

SpecTriple == InitTriple /\ [][NextTriple]_vars

----------------------------------------------------------------------------
(* Comparator and hashing claims                                           *)

SameCore(x, y) == x.major = y.major /\ x.minor = y.minor /\ x.patch = y.patch

\* How many of the given truth values are TRUE.
CountTrue(values) == Cardinality({ i \in 1..Len(values) : values[i] })

\* The results of ==, <, <=, > and >= on x and y.
Relations(x, y) ==
  << Version_eq(x, y), Version_lt(x, y), Version_le(x, y), Version_gt(x, y),
     Version_ge(x, y) >>

\* x with its buildmetadata replaced.
Rebuilt(x, buildmetadata) ==
  The(from_parts(x.major, x.minor, x.patch, { x.prerelease }, buildmetadata).value)

\* C1: for any two Versions exactly one of a<b, a==b, a>b holds, with a>b
\* read as the derived operator and as b<a; a<a never holds, and a<b and b<a
\* never hold together.
C1_Trichotomy ==
  \A x \in a, y \in b :
    /\ CountTrue(<< Version_lt(x, y), Version_eq(x, y), Version_gt(x, y) >>) = 1
    /\ CountTrue(<< Version_lt(x, y), Version_eq(x, y), Version_lt(y, x) >>) = 1
    /\ ~Version_lt(x, x)
    /\ ~Version_lt(y, y)
    /\ ~(Version_lt(x, y) /\ Version_lt(y, x))

\* Two parsed prereleases of which the second is the smaller, and two equal
\* ones, have been compared.
C1_Witness ==
  \E x \in a, y \in b :
    /\ x.prerelease # <<>> /\ y.prerelease # <<>>
    /\ SameCore(x, y)
    /\ Version_gt(x, y) \/ (Version_eq(x, y) /\ x # y)

\* C2: for any three Versions from Version(version), a<b and b<c implies a<c.
C2_Transitivity ==
  \A x \in a, y \in b, z \in c :
    Version_lt(x, y) /\ Version_lt(y, z) => Version_lt(x, z)

\* A chain a<b<c of one core whose prereleases have three different lengths
\* and mix int and str identifiers.
C2_Witness ==
  \E x \in a, y \in b, z \in c :
    /\ Version_lt(x, y) /\ Version_lt(y, z)
    /\ SameCore(x, z)
    /\ Cardinality({ Len(x.prerelease), Len(y.prerelease), Len(z.prerelease) }) = 3
    /\ \E i \in 1..Len(x.prerelease), j \in 1..Len(y.prerelease) :
         x.prerelease[i].kind # y.prerelease[j].kind

\* C3: two Versions that differ in buildmetadata alone are equal and neither
\* is below the other; and giving either operand another buildmetadata
\* changes none of ==, <, <=, >, >=.
C3_BuildMetadataIgnored ==
  \A x \in a, y \in b :
    /\ SameCore(x, y) /\ x.prerelease = y.prerelease /\ x.buildmetadata # y.buildmetadata
         => Version_eq(x, y) /\ ~Version_lt(x, y) /\ ~Version_lt(y, x)
    /\ \A buildmetadata \in PartsBuilds \cup { << "0", "0", "1" >> } :
         /\ Relations(Rebuilt(x, buildmetadata), y) = Relations(x, y)
         /\ Relations(x, Rebuilt(y, buildmetadata)) = Relations(x, y)

\* Two Versions with a prerelease that differ in buildmetadata alone.
C3_Witness ==
  \E x \in a, y \in b :
    /\ SameCore(x, y) /\ x.prerelease = y.prerelease
    /\ x.prerelease # <<>>
    /\ x.buildmetadata # y.buildmetadata

\* C4: equal Versions hash the same, so Versions that differ in buildmetadata
\* alone hash the same.
C4_HashConsistent ==
  \A x \in a, y \in b :
    Version_eq(x, y) => Version_hash(x, hashSeed) = Version_hash(y, hashSeed)

\* Equal Versions of different buildmetadata whose prerelease holds a str.
C4_Witness ==
  \E x \in a, y \in b :
    /\ Version_eq(x, y)
    /\ x.buildmetadata # y.buildmetadata
    /\ \E i \in 1..Len(x.prerelease) : x.prerelease[i].kind = "str"

\* C5: of two Versions of one core, the one with a prerelease is below the
\* one without.
C5_ReleaseAbovePrerelease ==
  \A x \in a, y \in b :
    SameCore(x, y) /\ x.prerelease # <<>> /\ y.prerelease = <<>>
      => Version_lt(x, y) /\ ~Version_lt(y, x)

\* A prerelease of two identifiers and the release of its core.
C5_Witness ==
  \E x \in a, y \in b :
    SameCore(x, y) /\ Len(x.prerelease) = 2 /\ y.prerelease = <<>>

\* The prereleases of x and y agree before position i, where x has an int
\* and y a str.
MixedAt(x, y, i) ==
  /\ i <= Len(x.prerelease) /\ i <= Len(y.prerelease)
  /\ SubSeq(x.prerelease, 1, i - 1) = SubSeq(y.prerelease, 1, i - 1)
  /\ x.prerelease[i].kind = "int"
  /\ y.prerelease[i].kind = "str"

\* C6: of two Versions of one core whose prereleases first differ where one
\* has an int and the other a str, the one with the int is the lower.
C6_NumericBelowAlphanumeric ==
  \A x \in a, y \in b :
    SameCore(x, y) /\ (\E i \in 1..Len(x.prerelease) : MixedAt(x, y, i))
      => Version_lt(x, y) /\ ~Version_lt(y, x)

\* An int above 9 against a str, in the longer prerelease.
C6_Witness ==
  \E x \in a, y \in b :
    /\ SameCore(x, y)
    /\ MixedAt(x, y, 1)
    /\ x.prerelease[1].num > 9
    /\ Len(x.prerelease) > Len(y.prerelease)

----------------------------------------------------------------------------
(* Parser and formatter claims                                             *)

\* s is a decimal number in ASCII digits with no leading zero.
IsNumberText(s) ==
  /\ s # <<>>
  /\ \A i \in 1..Len(s) : s[i] \in AsciiDigit
  /\ Len(s) > 1 => s[1] # "0"

\* s is major "." minor "." patch, each such a number.
IsCoreText(s) ==
  LET parts == split(s, ".")
  IN  Len(parts) = 3 /\ \A i \in 1..3 : IsNumberText(parts[i])

\* s is a digit sequence of more than one character that starts with "0".
HasLeadingZero(s) == Len(s) > 1 /\ s[1] = "0" /\ isdigit(s)

\* The digits s starts with.
LeadingDigits(s) == Take(s, RunLen(s, ClassDecimal))

\* One of the three components of the core of s has a leading zero: the text
\* before the first ".", the text between the first two ".", the digits
\* after the second ".".
CoreHasLeadingZero(s) ==
  LET parts == split(s, ".")
  IN  /\ Len(parts) >= 3
      /\ \/ HasLeadingZero(parts[1])
         \/ HasLeadingZero(parts[2])
         \/ HasLeadingZero(LeadingDigits(parts[3]))

\* The segments the classifier is given for the input version; none when
\* neither match succeeds or the match has no prerelease.
PrereleaseSegments(version) ==
  split(match_result(semver_regex(version),
                     semver_regex(alternative_version(version))).prerelease, ".")

\* C7: when Version(text) succeeds on the strict grammar, Version(str(a))
\* succeeds and equals a.
C7_RoundTrip ==
  /\ phase = "formatted" /\ semver_regex(text).matched
       => Version_init(rendered).value # {}
  /\ phase = "reparsed" /\ semver_regex(text).matched
       => b # {} /\ Version_eq(The(b), The(a))

\* A strict input with two identifiers and build metadata went round.
C7_Witness ==
  /\ phase = "reparsed"
  /\ semver_regex(text).matched
  /\ Len(The(a).prerelease) = 2
  /\ The(a).buildmetadata # <<>>
  /\ b # {}

\* C8: Version(text) raises "Invalid version" whenever major, minor or patch
\* is a digit sequence of more than one character starting with "0", also
\* when the rewrite pattern matches; a core whose components have no leading
\* zero, "0" among them, is accepted with these values.
C8_CoreLeadingZero ==
  phase = "parsed" =>
    /\ CoreHasLeadingZero(text) => a = {} /\ raised = "Invalid version"
    /\ IsCoreText(text) =>
         /\ a # {}
         /\ << str_int(The(a).major), str_int(The(a).minor), str_int(The(a).patch) >>
              = split(text, ".")

\* A leading zero in patch was rejected in a string the rewrite pattern
\* matches.
C8_Witness ==
  /\ phase = "parsed"
  /\ lenient_regex(text) # 0
  /\ HasLeadingZero(LeadingDigits(split(text, ".")[3]))
  /\ raised = "Invalid version"

\* C9: when the classifier is given non-empty segments, it raises iff some
\* segment of digits alone has more than one character and starts with "0";
\* otherwise a segment of digits is stored as the int of that value and a
\* segment with a letter or a hyphen as the str itself.
C9_NumericClassification ==
  LET segments == PrereleaseSegments(text)
  IN  phase = "parsed" /\ (\A i \in 1..Len(segments) : segments[i] # <<>>) =>
        /\ (\E i \in 1..Len(segments) : HasLeadingZero(segments[i]))
             <=> raised = "Numeric prerelease identifier must not have leading zeros"
        /\ raised = "Numeric prerelease identifier must not have leading zeros" => a = {}
        /\ a # {} =>
             /\ Len(The(a).prerelease) = Len(segments)
             /\ \A i \in 1..Len(segments) :
                  IF isdigit(segments[i])
                  THEN /\ The(a).prerelease[i].kind = "int"
                       /\ The(a).prerelease[i].num >= 0
                       /\ str_int(The(a).prerelease[i].num) = segments[i]
                  ELSE The(a).prerelease[i] = StrId(segments[i])

\* A segment that starts with "0" and holds a letter or a hyphen was stored
\* as a str, after the int 0.
C9_Witness ==
  /\ phase = "parsed"
  /\ a # {}
  /\ Len(The(a).prerelease) = 2
  /\ The(a).prerelease[1] = IntId(0)
  /\ The(a).prerelease[2].kind = "str"
  /\ The(a).prerelease[2].str[1] = "0"

\* The places where s can be cut into a core and a run after it.
CorePrefixes(s) == { k \in 1..(Len(s) - 1) : IsCoreText(Take(s, k)) }

\* C10 as stated: for every core followed by a run R of letters and digits,
\* Version(text) succeeds and equals Version of the text with "-" before R.
C10_AnyRun ==
  phase = "parsed" =>
    \A k \in CorePrefixes(text) :
      (\A i \in (k + 1)..Len(text) : text[i] \in ClassLetterDigit)
        => /\ a # {}
           /\ \A v \in Version_init(Take(text, k) \o << "-" >> \o Drop(text, k)).value :
                Version_eq(The(a), v)

\* C10 amended: the same for a run R that starts with a letter.
C10_LetterRun ==
  phase = "parsed" =>
    \A k \in CorePrefixes(text) :
      /\ text[k + 1] \in ClassLetter
      /\ \A i \in (k + 1)..Len(text) : text[i] \in ClassLetterDigit
      => /\ a # {}
         /\ \E v \in Version_init(Take(text, k) \o << "-" >> \o Drop(text, k)).value :
              Version_eq(The(a), v)

\* A run of a letter and a digit was accepted without a hyphen.
C10_Witness ==
  /\ phase = "parsed"
  /\ a # {}
  /\ \E k \in CorePrefixes(text) :
       /\ Len(text) = k + 2
       /\ text[k + 1] \in ClassLetter
       /\ text[k + 2] \in AsciiDigit
       /\ The(a).prerelease = << StrId(Drop(text, k)) >>

\* The strings C11 names as invalid.
InvalidExamples ==
  { <<>>,
    << "1", ".", "2" >>,
    << "1", ".", "2", ".", "3", ".", "4" >>,
    << "v", "1", ".", "2", ".", "3" >>,
    << "1", ".", "0", ".", "0", "-" >> }

----------------------------------------------------------------------------
(* Construction claims                                                     *)

\* The name the i-th constructor call binds.
Bound(i) == IF i = 1 THEN a ELSE IF i = 2 THEN b ELSE c

\* C12: a call of from_parts raises "Version components must be
\* non-negative" and binds nothing iff major, minor or patch is negative;
\* every other call returns an instance whose five fields are the arguments,
\* with the empty tuple for a prerelease of None.
C12_FromParts ==
  \A i \in 1..Len(calls) :
    calls[i][1] = "from_parts" =>
      IF calls[i][2] < 0 \/ calls[i][3] < 0 \/ calls[i][4] < 0
      THEN /\ i = Len(calls)
           /\ raised = "Version components must be non-negative"
           /\ Bound(i) = {}
      ELSE /\ i = Len(calls) => raised = "none"
           /\ Bound(i) = { [ major |-> calls[i][2],
                             minor |-> calls[i][3],
                             patch |-> calls[i][4],
                             prerelease |-> IF calls[i][5] = {} THEN <<>>
                                            ELSE The(calls[i][5]),
                             buildmetadata |-> calls[i][6] ] }

\* from_parts returned an instance with two identifiers and build metadata,
\* and a later call with a negative component raised.
C12_Witness ==
  /\ Len(calls) = 2
  /\ calls[1] = << "from_parts", 0, 1, 0,
                   { << StrId(<< "a", "l", "p", "h", "a" >>), IntId(1) >> }, << "b" >> >>
  /\ calls[2] = << "from_parts", 1, 0, 0 - 1, {}, <<>> >>
  /\ a # {}
  /\ b = {}
  /\ raised = "Version components must be non-negative"

\* A Numeric identifier of a value that is not negative, or an Alphanumeric
\* one of ASCII letters, digits and hyphens with a character that is no digit.
IsValidIdentifier(identifier) ==
  IF identifier.kind = "int" THEN identifier.num >= 0
  ELSE /\ \A i \in 1..Len(identifier.str) :
            identifier.str[i] \in AsciiLetter \cup AsciiDigit \cup { "-" }
       /\ \E i \in 1..Len(identifier.str) : identifier.str[i] \notin AsciiDigit

\* "major.minor.patch-" and the identifiers joined by ".".
TextOfParts(major, minor, patch, ids) ==
  str_int(major) \o << "." >> \o str_int(minor) \o << "." >> \o str_int(patch)
    \o << "-" >> \o join([ i \in 1..Len(ids) |-> str_identifier(ids[i]) ], ".")

\* The first call was from_parts(major, minor, patch, ids) with a tuple of
\* valid identifiers and no buildmetadata, and it returned.
FromValidParts ==
  /\ calls # <<>>
  /\ calls[1][1] = "from_parts"
  /\ calls[1][5] # {}
  /\ \A i \in 1..Len(The(calls[1][5])) : IsValidIdentifier(The(calls[1][5])[i])
  /\ calls[1][6] = <<>>
  /\ a # {}

\* x and y are equal, hash alike and stand in the same order to z.
Interchangeable(x, y, z) ==
  /\ Version_eq(x, y) /\ Version_eq(y, x)
  /\ \A seed \in HashSeeds : Version_hash(x, seed) = Version_hash(y, seed)
  /\ Relations(x, z) = Relations(y, z)
  /\ Relations(z, x) = Relations(z, y)

\* What C13 asks of the instance from_parts returned and of any other one.
AgreesWithParse ==
  LET parsed == Version_init(TextOfParts(calls[1][2], calls[1][3], calls[1][4],
                                         The(calls[1][5])))
  IN  /\ parsed.value # {}
      /\ \A x \in a, y \in parsed.value :
           /\ Interchangeable(x, y, x)
           /\ \A z \in b : Interchangeable(x, y, z)

\* C13 as stated: for every tuple of valid identifiers, the empty one too,
\* Version("major.minor.patch-ids") succeeds and is interchangeable with
\* from_parts(major, minor, patch, ids).
C13_AnySequence == FromValidParts => AgreesWithParse

\* C13 amended: the same for every tuple of at least one valid identifier.
C13_NonEmptySequence ==
  FromValidParts /\ The(calls[1][5]) # <<>> => AgreesWithParse

\* main()'s from_parts(1, 2, 3, ("alpha", 1)) and Version("1.2.3-alpha.1").
C13_Witness ==
  /\ FromValidParts
  /\ Len(calls) = 2
  /\ calls[1] = << "from_parts", 1, 2, 3,
                   { << StrId(<< "a", "l", "p", "h", "a" >>), IntId(1) >> }, <<>> >>
  /\ calls[2] = << "Version", TextOfParts(1, 2, 3, The(calls[1][5])) >>
  /\ b # {}

\* An identifier of the data model: a Numeric one that is not negative, or
\* an Alphanumeric one that is not empty and holds ASCII letters, digits and
\* hyphens only.
IsModelIdentifier(identifier) ==
  IF identifier.kind = "int" THEN identifier.num >= 0
  ELSE /\ identifier.str # <<>>
       /\ \A i \in 1..Len(identifier.str) :
            identifier.str[i] \in AsciiLetter \cup AsciiDigit \cup { "-" }

\* C14: every instance a constructor returned, Version(version) or
\* from_parts, has major, minor and patch that are not negative and a
\* prerelease of valid identifiers only.
C14_DataModelInvariant ==
  \A x \in a \cup b \cup c :
    /\ x.major >= 0 /\ x.minor >= 0 /\ x.patch >= 0
    /\ \A i \in 1..Len(x.prerelease) : IsModelIdentifier(x.prerelease[i])

----------------------------------------------------------------------------
(* Equality, formatting and ordering claims                                *)

\* Two identifiers of one kind and one value.
SameIdentifier(x_identifier, y_identifier) ==
  /\ x_identifier.kind = y_identifier.kind
  /\ IF x_identifier.kind = "int" THEN x_identifier.num = y_identifier.num
     ELSE /\ Len(x_identifier.str) = Len(y_identifier.str)
          /\ \A k \in 1..Len(x_identifier.str) : x_identifier.str[k] = y_identifier.str[k]

\* C15: x == y iff major, minor and patch are equal and the prereleases have
\* the same length and, at every position, identifiers of the same kind and
\* value, a str character for character; buildmetadata is not looked at.
C15_Equality ==
  \A x \in a, y \in b :
    Version_eq(x, y)
      <=> /\ SameCore(x, y)
          /\ Len(x.prerelease) = Len(y.prerelease)
          /\ \A i \in 1..Len(x.prerelease) :
               SameIdentifier(x.prerelease[i], y.prerelease[i])

\* Two instances whose identifiers differ in case alone are not equal.
C15_Witness ==
  \E x \in a, y \in b :
    /\ SameCore(x, y)
    /\ x.prerelease = << StrId(<< "a" >>) >>
    /\ y.prerelease = << StrId(<< "A" >>) >>
    /\ ~Version_eq(x, y)

\* s is the decimal text of n: ASCII digits, no leading zero, of value n.
IsDecimalOf(s, n) == IsNumberText(s) /\ int(s) = n

\* s is how str() renders identifier: the decimal text of an int, a str as
\* it is.
RendersIdentifier(s, identifier) ==
  IF identifier.kind = "int" THEN IsDecimalOf(s, identifier.num)
  ELSE s = identifier.str

\* front, the text before any "+", is "major.minor.patch" for v, followed by
\* "-" and the rendered identifiers joined by "." iff v has a prerelease.
\* core_len is the length of the digits and dots front starts with.
RendersFront(front, core_len, v) ==
  /\ Len(split(Take(front, core_len), ".")) = 3
  /\ IsDecimalOf(split(Take(front, core_len), ".")[1], v.major)
  /\ IsDecimalOf(split(Take(front, core_len), ".")[2], v.minor)
  /\ IsDecimalOf(split(Take(front, core_len), ".")[3], v.patch)
  /\ IF v.prerelease = <<>> THEN core_len = Len(front)
     ELSE /\ core_len < Len(front)
          /\ front[core_len + 1] = "-"
          /\ Len(split(Drop(front, core_len + 1), ".")) = Len(v.prerelease)
          /\ \A i \in 1..Len(v.prerelease) :
               RendersIdentifier(split(Drop(front, core_len + 1), ".")[i], v.prerelease[i])

\* C16: str(a) is "major.minor.patch" in decimal, then "-" and the
\* identifiers joined by "." iff the prerelease is not empty, then "+" and
\* buildmetadata iff buildmetadata is not empty; an int identifier is
\* rendered in decimal without leading zeros and a str as it is.
C16_Formatter ==
  phase = "formatted" =>
    /\ RendersFront(split(rendered, "+")[1],
                    RunLen(split(rendered, "+")[1], AsciiDigit \cup { "." }),
                    The(a))
    /\ IF The(a).buildmetadata = <<>> THEN Len(split(rendered, "+")) = 1
       ELSE /\ Len(split(rendered, "+")) = 2
            /\ split(rendered, "+")[2] = The(a).buildmetadata

\* An instance with a str and an int identifier and buildmetadata was
\* rendered.
C16_Witness ==
  /\ phase = "formatted"
  /\ Len(The(a).prerelease) = 2
  /\ The(a).prerelease[1].kind = "str"
  /\ The(a).prerelease[2].kind = "int"
  /\ The(a).buildmetadata # <<>>

\* C17: the operators total_ordering and object derive agree with < and ==:
\* x > y iff y < x; x <= y iff x < y or x == y; x >= y iff not x < y;
\* x != y iff not x == y; and x < y implies y > x and y != x.
C17_DerivedOperators ==
  \A x \in a, y \in b :
    /\ Version_gt(x, y) <=> Version_lt(y, x)
    /\ Version_le(x, y) <=> (Version_lt(x, y) \/ Version_eq(x, y))
    /\ Version_ge(x, y) <=> ~Version_lt(x, y)
    /\ Version_ne(x, y) <=> ~Version_eq(x, y)
    /\ Version_lt(x, y) => Version_gt(y, x) /\ Version_ne(y, x)

\* Two equal instances of different buildmetadata are <= and >= but not >,
\* either way round.
C17_Witness ==
  \E x \in a, y \in b :
    /\ x.buildmetadata # y.buildmetadata
    /\ Version_le(x, y) /\ Version_ge(x, y)
    /\ ~Version_gt(x, y) /\ ~Version_gt(y, x)

\* x without its prerelease.
Release(x) == [ x EXCEPT !.prerelease = <<>> ]

\* C18: x < y is decided by major alone when the majors differ, else by
\* minor alone when the minors differ, else by patch alone when the patches
\* differ, each compared as a number; the prereleases matter only when
\* major, minor and patch are equal.
C18_TieBreakOrder ==
  \A x \in a, y \in b :
    /\ x.major # y.major => (Version_lt(x, y) <=> x.major < y.major)
    /\ x.major = y.major /\ x.minor # y.minor
         => (Version_lt(x, y) <=> x.minor < y.minor)
    /\ x.major = y.major /\ x.minor = y.minor /\ x.patch # y.patch
         => (Version_lt(x, y) <=> x.patch < y.patch)
    /\ ~SameCore(x, y)
         => /\ Version_lt(x, y) <=> Version_lt(Release(x), Release(y))
            /\ Version_lt(y, x) <=> Version_lt(Release(y), Release(x))

\* "1.0.2" < "1.0.10-alpha.beta": patch 2 is below patch 10, though "2" is
\* above "10" as text and the first is a release, the second a prerelease.
C18_Witness ==
  \E x \in a, y \in b :
    /\ x.major = y.major /\ x.minor = y.minor
    /\ x.patch = 2 /\ y.patch = 10
    /\ x.prerelease = <<>> /\ y.prerelease # <<>>
    /\ Version_lt(x, y)

\* s is below t lexically by code point: at the first position where they
\* differ s has the lower character, or s ends there and t goes on.
TextBelow(s, t) ==
  \E k \in 1..(Len(s) + 1) :
    /\ k - 1 <= Len(t)
    /\ \A j \in 1..(k - 1) : s[j] = t[j]
    /\ IF k = Len(s) + 1 THEN Len(t) > Len(s)
       ELSE k <= Len(t) /\ Ord(s[k]) < Ord(t[k])

\* i is the first position where the prereleases of x and y differ, and the
\* identifiers there are of one kind.
FirstDifferenceAt(x, y, i) ==
  /\ i <= Len(x.prerelease) /\ i <= Len(y.prerelease)
  /\ \A j \in 1..(i - 1) : x.prerelease[j] = y.prerelease[j]
  /\ x.prerelease[i] # y.prerelease[i]
  /\ x.prerelease[i].kind = y.prerelease[i].kind

\* C19: with major, minor and patch equal, the first position where two
\* prereleases hold different identifiers of one kind decides x < y: by value
\* for two ints, lexically by code point for two strs; what follows that
\* position, and the lengths, change nothing.
C19_SameKindComparison ==
  \A x \in a, y \in b :
    \A i \in 1..Len(x.prerelease) :
      SameCore(x, y) /\ FirstDifferenceAt(x, y, i) =>
        /\ Version_lt(x, y)
             <=> IF x.prerelease[i].kind = "int"
                 THEN x.prerelease[i].num < y.prerelease[i].num
                 ELSE TextBelow(x.prerelease[i].str, y.prerelease[i].str)
        /\ Version_lt(x, y) <=> ~Version_lt(y, x)

\* "a10" is below "a2".
C19_Witness ==
  \E x \in a, y \in b :
    /\ SameCore(x, y)
    /\ x.prerelease = << StrId(<< "a", "1", "0" >>) >>
    /\ y.prerelease = << StrId(<< "a", "2" >>) >>
    /\ Version_lt(x, y)

\* p is q cut short: shorter, and equal to q as far as it goes.
IsStrictPrefix(p, q) == Len(p) < Len(q) /\ p = Take(q, Len(p))

\* C20: with major, minor and patch equal and both prereleases non-empty, a
\* prerelease that is a strict prefix of the other makes its Version the
\* smaller; with identical prereleases neither is smaller and the two are
\* equal.
C20_PrefixRule ==
  \A x \in a, y \in b :
    SameCore(x, y) /\ x.prerelease # <<>> /\ y.prerelease # <<>> =>
      /\ IsStrictPrefix(x.prerelease, y.prerelease)
           => Version_lt(x, y) /\ ~Version_lt(y, x)
      /\ IsStrictPrefix(y.prerelease, x.prerelease)
           => Version_lt(y, x) /\ ~Version_lt(x, y)
      /\ x.prerelease = y.prerelease
           => ~Version_lt(x, y) /\ ~Version_lt(y, x) /\ Version_eq(x, y)

\* 1.0.0-alpha is below 1.0.0-alpha.1.
C20_Witness ==
  \E x \in a, y \in b :
    /\ SameCore(x, y)
    /\ x.prerelease = << StrId(<< "a", "l", "p", "h", "a" >>) >>
    /\ y.prerelease = << StrId(<< "a", "l", "p", "h", "a" >>), IntId(1) >>
    /\ Version_lt(x, y)

----------------------------------------------------------------------------
(* Claims on the grammar the parser accepts                                *)

\* The text of s before its first "+", all of s when it holds none.
BeforePlus(s) == split(s, "+")[1]

\* The prerelease part of s, whose core ends at k and is followed by "-":
\* the text between that "-" and the first "+" after it.
PrereleasePart(s, k) == BeforePlus(Drop(s, k + 1))

HasEmptySegment(s) == \E i \in 1..Len(split(s, ".")) : split(s, ".")[i] = <<>>

\* C21: Version(text) raises ValueError whenever the prerelease part of
\* text, split on ".", holds an empty segment, with or without a "+" part
\* after it; when the pattern matches, the error is one of the classifier.
C21_EmptySegment ==
  phase = "parsed" =>
    \A k \in CorePrefixes(text) :
      text[k + 1] = "-" /\ HasEmptySegment(PrereleasePart(text, k)) =>
        /\ a = {}
        /\ raised # "none"
        /\ semver_regex(text).matched =>
             raised \in { "Prerelease identifiers must be non-empty",
                          "Numeric prerelease identifier must not have leading zeros" }

\* A doubled or trailing dot before build metadata was rejected by the
\* classifier.
C21_Witness ==
  /\ phase = "parsed"
  /\ semver_regex(text).matched
  /\ semver_regex(text).buildmetadata # <<>>
  /\ \E k \in CorePrefixes(text) :
       text[k + 1] = "-" /\ HasEmptySegment(PrereleasePart(text, k))
  /\ raised = "Prerelease identifiers must be non-empty"

Holds(s, ch) == \E i \in 1..Len(s) : s[i] = ch

\* The text of s after its first "+".
AfterPlus(s) == Drop(s, find(s, "+"))

\* The text of s between its first "-" and its first "+", for an s with a
\* "-" before any "+".
BetweenHyphenAndPlus(s) == Drop(BeforePlus(s), find(BeforePlus(s), "-"))

\* The identifier a segment stands for: the int of its value when it is
\* made of ASCII digits, else the str itself.
ClassifiedSegment(segment) ==
  IF segment # <<>> /\ \A i \in 1..Len(segment) : segment[i] \in AsciiDigit
  THEN IntId(int(segment))
  ELSE StrId(segment)

\* C22: when Version(text) succeeds, buildmetadata is the text after the
\* first "+" of text as it stands, and "" when text holds no "+"; when text
\* holds a "-" before any "+", the prerelease is the classified segments of
\* the text between that "-" and the "+".
C22_BuildMetadataCapture ==
  phase = "parsed" /\ a # {} =>
    /\ The(a).buildmetadata = IF Holds(text, "+") THEN AfterPlus(text) ELSE <<>>
    /\ Holds(BeforePlus(text), "-") =>
         The(a).prerelease
           = [ i \in 1..Len(split(BetweenHyphenAndPlus(text), ".")) |->
                 ClassifiedSegment(split(BetweenHyphenAndPlus(text), ".")[i]) ]

\* The same for a text that does not end in a newline.
CapturedUnlessNewline ==
  (text # <<>> /\ text[Len(text)] = "LF") \/ C22_BuildMetadataCapture

\* s is a list of segments joined by ".", each segment non-empty and made of
\* ASCII letters, digits and hyphens.
IsDottedList(s) ==
  \A i \in 1..Len(split(s, ".")) :
    /\ split(s, ".")[i] # <<>>
    /\ \A j \in 1..Len(split(s, ".")[i]) :
         split(s, ".")[i][j] \in AsciiLetter \cup AsciiDigit \cup { "-" }

\* C23: Version(text) succeeds on a text with a "+" only if the text after
\* the first "+" is a dot-separated list of non-empty segments of ASCII
\* letters, digits and hyphens.
C23_BuildMetadataGrammar ==
  phase = "parsed" /\ a # {} /\ Holds(text, "+") => IsDottedList(AfterPlus(text))

\* The length of the digits and dots s starts with.
NumericPrefixLen(s) == RunLen(s, ClassDecimal \cup { "." })

\* The letters and digits that follow the numeric prefix of s.
TrailingRun(s) ==
  Take(Drop(s, NumericPrefixLen(s)),
       RunLen(Drop(s, NumericPrefixLen(s)), AsciiLetter \cup AsciiDigit))

\* C24: when Version(text) succeeds though text itself does not match the
\* pattern, major, minor and patch are the numbers of the numeric prefix of
\* text, the prerelease is the one str made of the whole run of letters and
\* digits that follows the prefix, and buildmetadata is "".
C24_LenientSuffix ==
  phase = "parsed" /\ a # {} /\ ~semver_regex(text).matched =>
    /\ Len(split(Take(text, NumericPrefixLen(text)), ".")) = 3
    /\ The(a).major = int(split(Take(text, NumericPrefixLen(text)), ".")[1])
    /\ The(a).minor = int(split(Take(text, NumericPrefixLen(text)), ".")[2])
    /\ The(a).patch = int(split(Take(text, NumericPrefixLen(text)), ".")[3])
    /\ The(a).prerelease = << StrId(TrailingRun(text)) >>
    /\ AtDollar(Drop(text, NumericPrefixLen(text) + Len(TrailingRun(text))))
    /\ The(a).buildmetadata = <<>>

\* A run of a letter and two digits became one str.
C24_Witness ==
  /\ phase = "parsed"
  /\ a # {}
  /\ ~semver_regex(text).matched
  /\ Len(TrailingRun(text)) = 3
  /\ TrailingRun(text)[3] \in AsciiDigit
  /\ The(a).prerelease = << StrId(TrailingRun(text)) >>

\* The characters of a version string.
VersionAlphabet == AsciiDigit \cup AsciiLetter \cup { "-", ".", "+" }

\* C25: Version(text) succeeds only on a text made of ASCII digits, ASCII
\* letters, "-", "." and "+": none with a space, a final newline or a digit
\* outside ASCII.
C25_AcceptedAlphabet ==
  phase = "parsed" /\ a # {} => \A i \in 1..Len(text) : text[i] \in VersionAlphabet

----------------------------------------------------------------------------
(* Round trips through str()                                               *)

\* C26: when text itself matches the pattern, str(Version(text)) is text,
\* character for character.
C26_ExactRoundTrip ==
  phase = "formatted" /\ semver_regex(text).matched => rendered = text

\* The same for a text made of the characters of a version string.
ExactOnAlphabet ==
  (\E i \in 1..Len(text) : text[i] \notin VersionAlphabet) \/ C26_ExactRoundTrip

\* C27: when Version(text) succeeds, on the text itself or on the rewritten
\* one, rendered = str(a) matches the pattern as it stands, Version(rendered)
\* succeeds and equals a, and str(Version(rendered)) is rendered.
C27_IdempotentNormalisation ==
  /\ phase = "formatted" => semver_regex(rendered).matched
  /\ phase = "reparsed" =>
       /\ semver_regex(rendered).matched
       /\ b # {}
       /\ \A y \in b : /\ Version_eq(y, The(a)) /\ Version_eq(The(a), y)
                       /\ Version_str(y) = rendered

\* An input accepted through the rewrite was rendered and parsed again.
C27_Witness ==
  /\ phase = "reparsed"
  /\ ~semver_regex(text).matched
  /\ rendered # text
  /\ b # {}
  /\ Version_str(The(b)) = rendered

(* Claims on the rewrite of an unhyphenated suffix *)

\* The text after the numeric prefix starts with a letter.
HasUnhyphenatedSuffix(s) ==
  /\ NumericPrefixLen(s) > 0
  /\ NumericPrefixLen(s) < Len(s)
  /\ s[NumericPrefixLen(s) + 1] \in AsciiLetter

\* What follows the letters and digits after the numeric prefix.
AfterTrailingRun(s) == Drop(s, NumericPrefixLen(s) + Len(TrailingRun(s)))

\* C28: no string is matched by both the pattern and the rewrite pattern; a
\* string accepted through the rewrite has its run of letters and digits
\* reach the end of the string; a suffix followed by "+" or ".", or holding
\* "-", is refused with "Invalid version".
C28_RewriteScope ==
  /\ ~(semver_regex(text).matched /\ lenient_regex(text) # 0)
  /\ phase = "parsed" /\ a # {} /\ ~semver_regex(text).matched =>
       HasUnhyphenatedSuffix(text) /\ AfterTrailingRun(text) = <<>>
  /\ phase = "parsed" /\ HasUnhyphenatedSuffix(text)
       /\ AfterTrailingRun(text) # <<>>
       /\ Head(AfterTrailingRun(text)) \in { "+", ".", "-" } =>
         a = {} /\ raised = "Invalid version"

\* C28 for the strings that do not end in a newline.
RewriteScopeUnlessNewline ==
  (text # <<>> /\ text[Len(text)] = "LF") \/ C28_RewriteScope

(* Claims on the identifiers the parser produces *)

\* The text __str__ writes for the prerelease of version.
RenderedPrerelease(version) ==
  join([ i \in 1..Len(version.prerelease) |-> str_identifier(version.prerelease[i]) ], ".")

\* C29: in a Version made by Version(text) every str identifier holds a
\* character that is not a decimal digit and every int identifier is at
\* least 0; classifying the text its identifiers render to gives the same
\* identifiers back, so no other sequence the parser makes renders to that
\* text.
C29_UnambiguousKinds ==
  phase = "parsed" /\ a # {} =>
    /\ \A i \in 1..Len(The(a).prerelease) :
         /\ The(a).prerelease[i].kind = "str" =>
              \E j \in 1..Len(The(a).prerelease[i].str) :
                The(a).prerelease[i].str[j] \notin ClassDecimal
         /\ The(a).prerelease[i].kind = "int" => The(a).prerelease[i].num >= 0
    /\ The(a).prerelease # <<>> =>
         /\ parse_prerelease(RenderedPrerelease(The(a))).raised = "none"
         /\ parse_prerelease(RenderedPrerelease(The(a))).value = The(a).prerelease

\* A parsed prerelease holds an int identifier and a str identifier with a
\* digit in it.
C29_Witness ==
  /\ phase = "parsed" /\ a # {}
  /\ \E i \in 1..Len(The(a).prerelease) : The(a).prerelease[i].kind = "int"
  /\ \E i \in 1..Len(The(a).prerelease) :
       /\ The(a).prerelease[i].kind = "str"
       /\ \E j \in 1..Len(The(a).prerelease[i].str) :
            The(a).prerelease[i].str[j] \in AsciiDigit

\* The match __init__ classifies the prerelease of.
MatchOf(version) ==
  match_result(semver_regex(version), semver_regex(alternative_version(version)))

\* The segments _parse_prerelease gets from Version(version).
SegmentsOf(version) == split(MatchOf(version).prerelease, ".")

\* C30: Version(text) never raises "Invalid prerelease identifier": every
\* segment the classifier gets is made of ASCII letters, digits and hyphens,
\* and the only failures of the classifier are the empty segment and the
\* leading zero.
C30_UnreachableCharacterCheck ==
  /\ raised # "Invalid prerelease identifier"
  /\ phase = "parsed" /\ MatchOf(text).matched =>
       /\ \A i \in 1..Len(SegmentsOf(text)) : \A j \in 1..Len(SegmentsOf(text)[i]) :
            SegmentsOf(text)[i][j] \in AsciiLetter \cup AsciiDigit \cup { "-" }
       /\ raised \in { "none",
                       "Prerelease identifiers must be non-empty",
                       "Numeric prerelease identifier must not have leading zeros" }

\* The classifier got a segment with a letter and a hyphen, and a later
\* segment failed for being empty.
C30_Witness ==
  /\ phase = "parsed" /\ MatchOf(text).matched
  /\ Len(SegmentsOf(text)) >= 2
  /\ Holds(SegmentsOf(text)[1], "-")
  /\ \E j \in 1..Len(SegmentsOf(text)[1]) : SegmentsOf(text)[1][j] \in AsciiLetter
  /\ raised = "Prerelease identifiers must be non-empty"

====
